---------------------------- MODULE Spec2Model ----------------------------
(***************************************************************************)
(* Payment ledger (src/database.py, class DatabaseManager) and Paystack    *)
(* webhook endpoint (src/webhook.py).                                      *)
(*                                                                         *)
(* The ledger is one SQLite table, payments.  Every DatabaseManager method *)
(* opens a connection, runs ONE SQL statement, commits and closes, so each *)
(* method is one atomic step on the table: SQLite serialises write         *)
(* transactions, and a writer that cannot get the lock fails with          *)
(* sqlite3.OperationalError, which is the "execute" fault below.           *)
(*                                                                         *)
(* Time.  The table holds timestamps as TEXT and SQL compares them as      *)
(* TEXT.  CURRENT_TIMESTAMP and datetime('now') have the resolution of the *)
(* clock tick; a Python datetime bound to expires_at is written by the     *)
(* sqlite3 adapter as isoformat(" "), which appends a fraction when the    *)
(* datetime has one.  One tick of the model clock is one day, so that the  *)
(* 30-day retention window is 30 ticks.                                    *)
(***************************************************************************)
EXTENDS Integers, Sequences, FiniteSets, TLC

VARIABLES
    PAYSTACK_SECRET_KEY,  \* webhook.py:10, os.getenv result, fixed at import
    payments,             \* rows of table payments
    sqlite_sequence,      \* AUTOINCREMENT high-water mark of payments.id
    now,                  \* the clock SQLite reads (CURRENT_TIMESTAMP, 'now')
    last,                 \* the last call, its arguments and what it returned
    inflight              \* calls that overlap: each caller's position, the
                          \* connection holding the write lock, its transaction

vars == <<PAYSTACK_SECRET_KEY, payments, sqlite_sequence, now, last, inflight>>

---------------------------------------------------------------------------
(* Bounds and input domains *)

MaxId == 3          \* no INSERT succeeds once this many ids were assigned
MaxClock == 32      \* the clock stops here
RetentionDays == 30 \* datetime('now', '-30 days')

\* Clock reading when the ledger is constructed: day 1 is then exactly one
\* retention window in the past.
ClockStart == RetentionDays + 1

Emails == {"a@x.com", "b@x.com"}
References == {"PAY1", "PAY2"}
Amounts == {10}
Statuses == {"pending", "success", "failed"}
PlanTypes == {"monthly"}

\* The payer of each payment attempt: PAY1 is a@x.com's, PAY2 is tried
\* under either address.
EmailsFor(reference) ==
    IF reference = "PAY1" THEN {"a@x.com"} ELSE Emails

\* datetime values a caller passes as expires_at: day and sub-day fraction.
Datetimes ==
    {[day |-> 1, frac |-> 0], [day |-> 32, frac |-> 0],
     [day |-> 32, frac |-> 5]}

\* "none": the statement runs; "execute": execute/commit raises
\* sqlite3.Error; "connect": sqlite3.connect raises sqlite3.Error.
Faults == {"none", "execute", "connect"}

---------------------------------------------------------------------------
(* Timestamps as TEXT *)

\* Fixed-width rendering of a clock reading ("YYYY-MM-DD HH:MM:SS").
Text2(n) == <<48 + (n \div 10), 48 + (n % 10)>>

\* sqlite3's default datetime adapter: val.isoformat(" "); the fraction is
\* written only when it is not zero.
adapt_datetime(dt) ==
    Text2(dt.day) \o (IF dt.frac = 0 THEN <<>> ELSE <<46, 48 + dt.frac>>)

\* SQLite datetime('now') / CURRENT_TIMESTAMP.
datetime_now(clock) == Text2(clock)

\* SQLite datetime('now', '-30 days').
datetime_now_minus_30_days(clock) == Text2(clock - RetentionDays)

Min(a, b) == IF a < b THEN a ELSE b

\* SQLite BINARY collation on TEXT: memcmp on the common prefix, then length.
TextLess(a, b) ==
    \/ \E i \in 1..Min(Len(a), Len(b)) :
          /\ a[i] < b[i]
          /\ \A j \in 1..(i - 1) : a[j] = b[j]
    \/ /\ Len(a) < Len(b)
       /\ \A j \in 1..Len(a) : a[j] = b[j]

TextGreater(a, b) == TextLess(b, a)

---------------------------------------------------------------------------
(* The last call: its name, its lookup key and what the caller got back *)

NoHeader == [present |-> FALSE, value |-> <<>>]

NoCall ==
    [op |-> "init", email |-> "", reference |-> "",
     body |-> 0, signature |-> NoHeader, fault |-> "none",
     ret |-> "", http |-> 0, json |-> "", dict |-> <<>>, rows |-> <<>>]

\* What a method hands back when get_connection raised: the except clause
\* runs, then "finally: conn.close()" reads the unbound local conn and the
\* UnboundLocalError replaces the return value.
Returned(fault, onExecuteError, value) ==
    CASE fault = "connect" -> "UnboundLocalError"
      [] fault = "execute" -> onExecuteError
      [] OTHER -> value

---------------------------------------------------------------------------
(* Overlapping calls: callers, their calls, the write lock *)

Callers == {1, 2}

NoWriter == 0

NoDatetime == [day |-> 0, frac |-> 0]

\* A caller before its call.  pc: "ready", "connected" (get_connection
\* returned), "executed" (the statement ran, the transaction is open),
\* "returned".  handler: the except clause that ran.  absent: the reference
\* was not in the table when the call began.  at, removed: the clock at the
\* statement and the rows it deleted.
ReadyCall ==
    [pc |-> "ready", op |-> "", reference |-> "", status |-> "",
     expires_at |-> NoDatetime, fault |-> "none", ret |-> "",
     handler |-> "", absent |-> FALSE, at |-> 0, removed |-> 0]

NoTransaction == [table |-> {}, seq |-> 0]

NoneInFlight ==
    [calls |-> [c \in Callers |-> ReadyCall], writer |-> NoWriter,
     pending |-> NoTransaction]

---------------------------------------------------------------------------
(* DatabaseManager *)

RowsOf(table, email) == {r \in table : r.email = email}

HasReference(table, reference) == \E r \in table : r.reference = reference

\* The column declared without UNIQUE.
UniqueViolation_NoConstraint(table, reference) == FALSE

\* reference TEXT UNIQUE NOT NULL
UniqueViolation(table, reference) == HasReference(table, reference)

\* INSERT INTO payments (...) VALUES (...): id is AUTOINCREMENT, created_at
\* defaults to CURRENT_TIMESTAMP, expires_at goes through the adapter.
InsertRow(table, seq, clock, email, reference, amount, status, plan_type, expires_at) ==
    table \cup {[id |-> seq + 1, email |-> email, reference |-> reference,
                 amount |-> amount, status |-> status,
                 created_at |-> datetime_now(clock),
                 expires_at |-> adapt_datetime(expires_at),
                 plan_type |-> plan_type]}

\* "return True" also in the IntegrityError handler.
StoreReturn_AlwaysTrue(ok) == "True"

\* return True after commit, return False in the IntegrityError handler.
StoreReturn(ok) == IF ok THEN "True" ELSE "False"

store_payment(email, reference, amount, status, plan_type, expires_at, fault) ==
    /\ LET ok == fault = "none" /\ ~UniqueViolation(payments, reference)
       IN /\ ok => sqlite_sequence < MaxId
          /\ payments' = IF ok
                         THEN InsertRow(payments, sqlite_sequence, now, email,
                                        reference, amount, status, plan_type,
                                        expires_at)
                         ELSE payments
          /\ sqlite_sequence' = IF ok THEN sqlite_sequence + 1
                                ELSE sqlite_sequence
          /\ last' = [NoCall EXCEPT
                        !.op = "store_payment", !.reference = reference,
                        !.fault = fault,
                        !.ret = Returned(fault, "False", StoreReturn(ok))]
    /\ UNCHANGED <<inflight, PAYSTACK_SECRET_KEY, now>>

\* The UPDATE without its WHERE clause.
UpdateStatus_NoWhere(table, reference, status) ==
    {[r EXCEPT !.status = status] : r \in table}

\* UPDATE payments SET status = ? WHERE reference = ?
UpdateStatus(table, reference, status) ==
    {IF r.reference = reference THEN [r EXCEPT !.status = status] ELSE r :
        r \in table}

\* The value update_payment_status returns after a statement that raised
\* nothing; the UPDATE's rowcount is not looked at.
UpdateReturn(table, reference) == "True"

update_payment_status(reference, status, fault) ==
    /\ payments' = IF fault = "none"
                   THEN UpdateStatus(payments, reference, status)
                   ELSE payments
    /\ last' = [NoCall EXCEPT
                  !.op = "update_payment_status", !.reference = reference,
                  !.fault = fault,
                  !.ret = Returned(fault, "False",
                                   UpdateReturn(payments, reference))]
    /\ UNCHANGED <<inflight, PAYSTACK_SECRET_KEY, sqlite_sequence, now>>

\* ORDER BY created_at DESC LIMIT 1: any row no other row is newer than.
\* The statement names no second sort key, so SQLite may return any row of
\* the newest created_at.
LatestRows(rows) ==
    {r \in rows : \A q \in rows : ~TextLess(r.created_at, q.created_at)}

StatusDict(r) ==
    [status |-> r.status, expires_at |-> r.expires_at,
     plan_type |-> r.plan_type]

get_payment_status(email, fault) ==
    /\ \/ /\ fault = "none"
          /\ RowsOf(payments, email) # {}
          /\ \E r \in LatestRows(RowsOf(payments, email)) :
                last' = [NoCall EXCEPT
                           !.op = "get_payment_status", !.email = email,
                           !.ret = "dict", !.dict = <<StatusDict(r)>>]
       \/ /\ fault # "none" \/ RowsOf(payments, email) = {}
          /\ last' = [NoCall EXCEPT
                        !.op = "get_payment_status", !.email = email,
                        !.fault = fault,
                        !.ret = Returned(fault, "None", "None")]
    /\ UNCHANGED <<inflight, PAYSTACK_SECRET_KEY, payments, sqlite_sequence, now>>

\* expires_at >= datetime('now') in place of >.
ActiveCount_NotStrict(table, email, clock) ==
    Cardinality({r \in table :
                    /\ r.email = email
                    /\ r.status = "success"
                    /\ ~TextLess(r.expires_at, datetime_now(clock))})

\* SELECT COUNT(*) ... WHERE email = ? AND status = 'success'
\*                       AND expires_at > datetime('now')
ActiveCount(table, email, clock) ==
    Cardinality({r \in table :
                    /\ r.email = email
                    /\ r.status = "success"
                    /\ TextGreater(r.expires_at, datetime_now(clock))})

check_active_subscription(email, fault) ==
    /\ last' = [NoCall EXCEPT
                  !.op = "check_active_subscription", !.email = email,
                  !.fault = fault,
                  !.ret = Returned(fault, "False",
                                   IF ActiveCount(payments, email, now) > 0
                                   THEN "True" ELSE "False")]
    /\ UNCHANGED <<inflight, PAYSTACK_SECRET_KEY, payments, sqlite_sequence, now>>

HistoryDict(r) ==
    [reference |-> r.reference, amount |-> r.amount, status |-> r.status,
     created_at |-> r.created_at, plan_type |-> r.plan_type,
     expires_at |-> r.expires_at]

\* ORDER BY created_at DESC: every listing of the rows, newest first.
OrderedListings(rows) ==
    {s \in [1..Cardinality(rows) -> rows] :
        /\ \A i, j \in 1..Cardinality(rows) : i # j => s[i] # s[j]
        /\ \A i, j \in 1..Cardinality(rows) :
              i < j => ~TextLess(s[i].created_at, s[j].created_at)}

get_payment_history(email, fault) ==
    /\ \/ /\ fault = "none"
          /\ \E s \in OrderedListings(RowsOf(payments, email)) :
                last' = [NoCall EXCEPT
                           !.op = "get_payment_history", !.email = email,
                           !.ret = "list",
                           !.rows = [i \in 1..Len(s) |-> HistoryDict(s[i])]]
       \/ /\ fault # "none"
          /\ last' = [NoCall EXCEPT
                        !.op = "get_payment_history", !.email = email,
                        !.fault = fault,
                        !.ret = Returned(fault, "list", "list")]
    /\ UNCHANGED <<inflight, PAYSTACK_SECRET_KEY, payments, sqlite_sequence, now>>

\* The window added, not subtracted: expires_at < now + 30 days.
DeleteExpired_PlusWindow(table, clock) ==
    {r \in table :
        ~TextLess(r.expires_at, Text2(clock + RetentionDays))}

\* The window left out: expires_at < datetime('now').
DeleteExpired_NoWindow(table, clock) ==
    {r \in table : ~TextLess(r.expires_at, datetime_now(clock))}

\* DELETE FROM payments WHERE expires_at < datetime('now', '-30 days')
DeleteExpired(table, clock) ==
    {r \in table :
        ~TextLess(r.expires_at, datetime_now_minus_30_days(clock))}

cleanup_expired_payments(fault) ==
    /\ payments' = IF fault = "none" THEN DeleteExpired(payments, now)
                   ELSE payments
    /\ last' = [NoCall EXCEPT
                  !.op = "cleanup_expired_payments", !.fault = fault,
                  !.ret = Returned(fault, "None", "None")]
    /\ UNCHANGED <<inflight, PAYSTACK_SECRET_KEY, sqlite_sequence, now>>

\* A day passes between two calls.
Tick ==
    /\ now < MaxClock
    /\ now' = now + 1
    /\ last' = [NoCall EXCEPT !.op = "tick"]
    /\ UNCHANGED <<inflight, PAYSTACK_SECRET_KEY, payments, sqlite_sequence>>

---------------------------------------------------------------------------
(* webhook.py *)

\* os.getenv('PAYSTACK_SECRET_KEY'): None when the variable is not set.
SecretUnset == [set |-> FALSE, value |-> ""]
SecretConfigs ==
    {SecretUnset, [set |-> TRUE, value |-> ""],
     [set |-> TRUE, value |-> "sk_live"]}

\* Keys a sender may sign with: the receiver's, another one, the empty one.
SigningKeys == {"sk_live", "sk_other", ""}

\* Raw request bodies (bytes), by number, and what request.json makes of
\* them.  Requests carry Content-Type: application/json.
\*  1  {"event":"charge.success","data":{"reference":"PAY1",
\*      "email":"a@x.com","amount":10,"plan":"monthly"}}
\*  2  {"event":"transfer.success","data":{"reference":"PAY1"}}
\*  3  {"event":"charge.success","data":{}}
\*  4  {"event":"charge.success"          (not JSON)
Bodies == 1..4

request_json(body) ==
    CASE body = 1 -> [valid |-> TRUE, event |-> "charge.success",
                      has_reference |-> TRUE, reference |-> "PAY1",
                      email |-> "a@x.com"]
      [] body = 2 -> [valid |-> TRUE, event |-> "transfer.success",
                      has_reference |-> TRUE, reference |-> "PAY1",
                      email |-> ""]
      [] body = 3 -> [valid |-> TRUE, event |-> "charge.success",
                      has_reference |-> FALSE, reference |-> "",
                      email |-> ""]
      [] OTHER    -> [valid |-> FALSE, event |-> "",
                      has_reference |-> FALSE, reference |-> "",
                      email |-> ""]

\* hmac.new(key, msg, hashlib.sha512).hexdigest(): a keyed digest, taken as
\* collision free: two digests are equal only for the same key and bytes.
hmac_sha512_hexdigest(key, msg) == <<"sha512", key, msg>>

Header(value) == [present |-> TRUE, value |-> value]

\* x-paystack-signature values tried with a body: no header, the body
\* signed with each key, and body 1's signature under the receiver's key.
SignaturesFor(body) ==
    {NoHeader}
    \cup {Header(hmac_sha512_hexdigest(k, body)) : k \in SigningKeys}
    \cup {Header(hmac_sha512_hexdigest("sk_live", 1))}

\* paystack_signature != computed_signature (None equals no string).
SignatureMismatch(signature, computed) ==
    ~signature.present \/ signature.value # computed

\* Any event other than charge.success turned down with 400.
WebhookResponse_RejectUnknown(secret, signature, body) ==
    IF ~secret.set
    THEN [http |-> 500, json |-> "", ret |-> "AttributeError"]
    ELSE IF SignatureMismatch(signature,
                              hmac_sha512_hexdigest(secret.value, body))
    THEN [http |-> 400, json |-> "invalid signature", ret |-> "response"]
    ELSE IF ~request_json(body).valid
    THEN [http |-> 400, json |-> "", ret |-> "BadRequest"]
    ELSE IF request_json(body).event # "charge.success"
    THEN [http |-> 400, json |-> "unknown event", ret |-> "response"]
    ELSE IF ~request_json(body).has_reference
    THEN [http |-> 500, json |-> "", ret |-> "KeyError"]
    ELSE [http |-> 200, json |-> "success", ret |-> "response"]

\* The signature read but never compared.
WebhookResponse_NoVerify(secret, signature, body) ==
    IF ~secret.set
    THEN [http |-> 500, json |-> "", ret |-> "AttributeError"]
    ELSE IF ~signature.present
    THEN [http |-> 400, json |-> "invalid signature", ret |-> "response"]
    ELSE [http |-> 200, json |-> "success", ret |-> "response"]

\* The response of webhook(): [http, json, ret].  An exception that leaves
\* the view is answered by Flask with 500; a body request.json cannot parse
\* is answered by Flask with 400 Bad Request.
WebhookResponse(secret, signature, body) ==
    IF ~secret.set
    THEN [http |-> 500, json |-> "", ret |-> "AttributeError"]
    ELSE IF SignatureMismatch(signature,
                              hmac_sha512_hexdigest(secret.value, body))
    THEN [http |-> 400, json |-> "invalid signature", ret |-> "response"]
    ELSE IF ~request_json(body).valid
    THEN [http |-> 400, json |-> "", ret |-> "BadRequest"]
    ELSE IF /\ request_json(body).event = "charge.success"
            /\ ~request_json(body).has_reference
    THEN [http |-> 500, json |-> "", ret |-> "KeyError"]
    ELSE [http |-> 200, json |-> "success", ret |-> "response"]

\* The record of the event's reference deleted by the handler.
WebhookLedger_DropReference(table, secret, signature, body) ==
    {r \in table : r.reference # request_json(body).reference}

\* What webhook() does to the table: the reference is read into a local and
\* dropped; no DatabaseManager method is called.
WebhookLedger(table, secret, signature, body) == table

webhook(signature, body) ==
    /\ payments' = WebhookLedger(payments, PAYSTACK_SECRET_KEY, signature, body)
    /\ LET resp == WebhookResponse(PAYSTACK_SECRET_KEY, signature, body)
       IN last' = [NoCall EXCEPT
                     !.op = "webhook", !.body = body,
                     !.signature = signature,
                     !.ret = resp.ret, !.http = resp.http,
                     !.json = resp.json]
    /\ UNCHANGED <<inflight, PAYSTACK_SECRET_KEY, sqlite_sequence, now>>

---------------------------------------------------------------------------
(* The ledger on its own: DatabaseManager() and calls of its methods *)

Init ==
    /\ PAYSTACK_SECRET_KEY = [set |-> TRUE, value |-> "sk_live"]
    /\ payments = {}
    /\ sqlite_sequence = 0
    /\ now = ClockStart
    /\ last = NoCall
    /\ inflight = NoneInFlight

\* Status and expiry tried with a call: all of them when the statement
\* runs, one of each when the storage fails, where none of them is kept.
StatusesTried(fault) ==
    IF fault = "none" THEN Statuses ELSE {"pending"}

DatetimesTried(fault) ==
    IF fault = "none" THEN Datetimes ELSE {[day |-> 32, frac |-> 0]}

StorePayment ==
    \E r \in References, a \in Amounts, p \in PlanTypes, f \in Faults :
       \E e \in EmailsFor(r), s \in StatusesTried(f),
          x \in DatetimesTried(f) :
          store_payment(e, r, a, s, p, x, f)

UpdatePaymentStatus ==
    \E r \in References, s \in Statuses, f \in Faults :
       update_payment_status(r, s, f)

GetPaymentStatus ==
    \E e \in Emails, f \in Faults : get_payment_status(e, f)

CheckActiveSubscription ==
    \E e \in Emails, f \in Faults : check_active_subscription(e, f)

GetPaymentHistory ==
    \E e \in Emails, f \in Faults : get_payment_history(e, f)

CleanupExpiredPayments ==
    \E f \in Faults : cleanup_expired_payments(f)

Next ==
    \/ StorePayment
    \/ UpdatePaymentStatus
    \/ GetPaymentStatus
    \/ CheckActiveSubscription
    \/ GetPaymentHistory
    \/ CleanupExpiredPayments
    \/ Tick

Spec == Init /\ [][Next]_vars

---------------------------------------------------------------------------
(* The webhook endpoint beside the ledger: payment PAY1 of a@x.com *)

InitWebhook ==
    /\ PAYSTACK_SECRET_KEY \in SecretConfigs
    /\ payments = {}
    /\ sqlite_sequence = 0
    /\ now = ClockStart
    /\ last = NoCall
    /\ inflight = NoneInFlight

Webhook ==
    \E b \in Bodies : \E g \in SignaturesFor(b) : webhook(g, b)

StorePay1 ==
    \E a \in Amounts, p \in PlanTypes, f \in Faults :
       \E s \in StatusesTried(f), x \in DatetimesTried(f) :
          store_payment("a@x.com", "PAY1", a, s, p, x, f)

UpdatePay1 ==
    \E s \in Statuses, f \in Faults : update_payment_status("PAY1", s, f)

GetStatusPay1 ==
    \E f \in Faults : get_payment_status("a@x.com", f)

CheckActivePay1 ==
    \E f \in Faults : check_active_subscription("a@x.com", f)

GetHistoryPay1 ==
    \E f \in Faults : get_payment_history("a@x.com", f)

NextWebhook ==
    \/ Webhook
    \/ StorePay1
    \/ UpdatePay1
    \/ GetStatusPay1
    \/ CheckActivePay1
    \/ GetHistoryPay1
    \/ CleanupExpiredPayments
    \/ Tick

SpecWebhook == InitWebhook /\ [][NextWebhook]_vars

---------------------------------------------------------------------------
(* Two callers whose calls overlap.  A call is get_connection, execute,    *)
(* commit, close.  execute of a writing statement takes SQLite's write     *)
(* lock and keeps it until the connection commits or closes; a connection  *)
(* that finds the lock taken waits for it (busy timeout), and gives up      *)
(* with sqlite3.OperationalError "database is locked", an "execute" fault. *)

\* The calls made by the two callers.
WriteJobs ==
    {[op |-> "store_payment", reference |-> "PAY1", status |-> "success",
      expires_at |-> x] : x \in Datetimes}
    \cup {[op |-> "update_payment_status", reference |-> "PAY1",
           status |-> "failed", expires_at |-> NoDatetime]}
    \cup {[op |-> "cleanup_expired_payments", reference |-> "",
           status |-> "", expires_at |-> NoDatetime]}

AllReady == \A c \in Callers : inflight.calls[c].pc = "ready"

\* What the handler of sqlite3.Error returns, by method.
OnError(op) ==
    IF op = "cleanup_expired_payments" THEN "None" ELSE "False"

\* The call begins: get_connection().
Call(c, job, fault) ==
    /\ inflight.calls[c].pc = "ready"
    /\ fault \in {"none", "connect"}
    /\ inflight' =
          [inflight EXCEPT !.calls[c] =
              [ReadyCall EXCEPT
                 !.pc = IF fault = "connect" THEN "returned" ELSE "connected",
                 !.op = job.op, !.reference = job.reference,
                 !.status = job.status, !.expires_at = job.expires_at,
                 !.fault = fault,
                 !.ret = IF fault = "connect" THEN "UnboundLocalError" ELSE "",
                 !.handler = IF fault = "connect" THEN "Error" ELSE "",
                 !.absent = ~HasReference(payments, job.reference)]]
    /\ UNCHANGED <<PAYSTACK_SECRET_KEY, payments, sqlite_sequence, now, last>>

\* The table and sequence after the statement of a call, run on the
\* committed table.
StatementResult(call, table, seq, clock) ==
    CASE call.op = "store_payment" ->
            [table |-> InsertRow(table, seq, clock, "a@x.com",
                                 call.reference, 10, call.status, "monthly",
                                 call.expires_at),
             seq |-> seq + 1]
      [] call.op = "update_payment_status" ->
            [table |-> UpdateStatus(table, call.reference, call.status),
             seq |-> seq]
      [] OTHER ->
            [table |-> DeleteExpired(table, clock), seq |-> seq]

\* c.execute(...): fails on a storage error or a lock it waited too long
\* for, breaks the UNIQUE constraint, or runs and opens the transaction.
Execute(c, fault) ==
    LET call == inflight.calls[c]
        dup  == /\ call.op = "store_payment"
                /\ UniqueViolation(payments, call.reference)
    IN /\ call.pc = "connected"
       /\ fault \in {"none", "execute"}
       /\ fault = "none" => inflight.writer = NoWriter
       /\ (fault = "none" /\ call.op = "store_payment" /\ ~dup)
             => sqlite_sequence < MaxId
       /\ inflight' =
             IF fault = "execute"
             THEN [inflight EXCEPT !.calls[c] =
                     [call EXCEPT !.pc = "returned", !.fault = "execute",
                                  !.ret = OnError(call.op),
                                  !.handler = "Error"]]
             ELSE IF dup
             THEN [inflight EXCEPT !.calls[c] =
                     [call EXCEPT !.pc = "returned",
                                  !.ret = StoreReturn(FALSE),
                                  !.handler = "IntegrityError", !.at = now]]
             ELSE [inflight EXCEPT
                     !.calls[c] =
                        [call EXCEPT
                           !.pc = "executed", !.at = now,
                           !.removed =
                              IF call.op = "cleanup_expired_payments"
                              THEN Cardinality(payments \
                                               DeleteExpired(payments, now))
                              ELSE 0],
                     !.writer = c,
                     !.pending = StatementResult(call, payments,
                                                 sqlite_sequence, now)]
       /\ UNCHANGED <<PAYSTACK_SECRET_KEY, payments, sqlite_sequence, now, last>>

\* What a write method returns after its commit.
CommitReturn(call, table) ==
    CASE call.op = "store_payment" -> StoreReturn(TRUE)
      [] call.op = "update_payment_status" ->
            UpdateReturn(table, call.reference)
      [] OTHER -> "None"

\* conn.commit() and the return; a commit that raises leaves the
\* transaction to be rolled back by conn.close().
Commit(c, fault) ==
    LET call == inflight.calls[c]
    IN /\ call.pc = "executed"
       /\ inflight.writer = c
       /\ fault \in {"none", "execute"}
       /\ payments' = IF fault = "none" THEN inflight.pending.table
                      ELSE payments
       /\ sqlite_sequence' = IF fault = "none" THEN inflight.pending.seq
                             ELSE sqlite_sequence
       /\ inflight' =
             [inflight EXCEPT
                !.calls[c] =
                   [call EXCEPT
                      !.pc = "returned", !.fault = fault,
                      !.ret = IF fault = "none"
                              THEN CommitReturn(call, payments)
                              ELSE OnError(call.op),
                      !.handler = IF fault = "none" THEN "" ELSE "Error",
                      !.removed = IF fault = "none" THEN call.removed ELSE 0],
                !.writer = NoWriter,
                !.pending = NoTransaction]
       /\ UNCHANGED <<PAYSTACK_SECRET_KEY, now, last>>

\* Before the two calls: the ledger is filled by calls that do not overlap.
Setup ==
    /\ AllReady
    /\ \E r \in References, x \in Datetimes :
          store_payment("a@x.com", r, 10, "success", "monthly", x, "none")

Calls ==
    \E c \in Callers, j \in WriteJobs, f \in {"none", "connect"} :
       Call(c, j, f)

Executes == \E c \in Callers, f \in {"none", "execute"} : Execute(c, f)

Commits == \E c \in Callers, f \in {"none", "execute"} : Commit(c, f)

NextConcurrent ==
    \/ Setup
    \/ Calls
    \/ Executes
    \/ Commits
    \/ Tick

SpecConcurrent == Init /\ [][NextConcurrent]_vars

---------------------------------------------------------------------------
(* Properties *)

\* The instant a stored timestamp text denotes, in tenths of a day, and the
\* instant of a clock reading.
Instant(text) ==
    ((text[1] - 48) * 10 + (text[2] - 48)) * 10
    + (IF Len(text) > 2 THEN text[4] - 48 ELSE 0)

ClockInstant(clock) == clock * 10

RowsWithReference(table, reference) ==
    {r \in table : r.reference = reference}

\* C1: in every reachable ledger state no two payment records share a
\* reference, whatever store_payment, update_payment_status and
\* cleanup_expired_payments calls came before.
C1_UniqueReference ==
    \A r1, r2 \in payments : r1.reference = r2.reference => r1 = r2

\* A second store_payment of a reference in the table was turned down while
\* the table holds both references.
C1_Witness ==
    /\ last.op = "store_payment"
    /\ last.fault = "none"
    /\ last.ret = "False"
    /\ Cardinality(payments) = 2
    /\ RowsWithReference(payments, last.reference) # {}

\* C7: store_payment with a reference already in the ledger fails and
\* leaves the ledger as it was: the existing record keeps every field and
\* no second record is added.
C7_DuplicateStoreFails ==
    [][(/\ last'.op = "store_payment"
        /\ HasReference(payments, last'.reference))
       => (last'.ret # "True" /\ payments' = payments)]_vars

\* store_payment reached SQLite with a reference the table holds and
\* returned False.
C7_Witness ==
    /\ last.op = "store_payment"
    /\ last.fault = "none"
    /\ last.ret = "False"
    /\ HasReference(payments, last.reference)

\* C8: update_payment_status with a reference no record has reports
\* failure to its caller, not success, and leaves the ledger as it was.
C8_UpdateOfMissingReferenceFails ==
    [][(/\ last'.op = "update_payment_status"
        /\ ~HasReference(payments, last'.reference))
       => (last'.ret # "True" /\ payments' = payments)]_vars

\* C9: check_active_subscription(email), when its query runs, returns true
\* exactly if some record of that email, the newest or not, has status
\* success and an expires_at strictly later than the clock reading.
C9_ActiveIffUnexpiredSuccess ==
    (last.op = "check_active_subscription" /\ last.fault = "none")
    => (last.ret = "True"
        <=> \E r \in payments :
               /\ r.email = last.email
               /\ r.status = "success"
               /\ Instant(r.expires_at) > ClockInstant(now))

\* The call returned true for an email whose valid success record is older
\* than a failed record of the same email.
C9_Witness ==
    /\ last.op = "check_active_subscription"
    /\ last.fault = "none"
    /\ last.ret = "True"
    /\ \E r, q \in payments :
          /\ r.email = last.email /\ q.email = last.email
          /\ r.status = "success" /\ q.status = "failed"
          /\ Instant(r.created_at) < Instant(q.created_at)
          /\ Instant(r.expires_at) > ClockInstant(now)

\* The record get_payment_status is to return: greatest created_at, and the
\* highest id among those.
NewestHighestId(rows) ==
    CHOOSE r \in rows :
        \A q \in rows :
            \/ Instant(q.created_at) < Instant(r.created_at)
            \/ (q.created_at = r.created_at /\ q.id <= r.id)

\* C10: get_payment_status(email) returns status, expires_at and plan_type
\* of the record of that email with the greatest created_at, the one with
\* the highest id when several share it, and none when the email has no
\* record.
C10_LatestStatusTieBreak ==
    (last.op = "get_payment_status" /\ last.fault = "none")
    => IF RowsOf(payments, last.email) = {}
       THEN last.ret = "None"
       ELSE /\ last.ret = "dict"
            /\ last.dict =
                  <<StatusDict(NewestHighestId(RowsOf(payments, last.email)))>>

\* The request carries the signature of its body under the configured key.
ValidlySigned(secret, call) ==
    /\ secret.set
    /\ call.signature.present
    /\ call.signature.value = hmac_sha512_hexdigest(secret.value, call.body)

\* C2: after a validly signed charge.success event for a reference was
\* delivered, once or again, exactly one record has that reference and its
\* status is success.
C2_DeliveryLeavesOneSuccessRecord ==
    (/\ last.op = "webhook"
     /\ ValidlySigned(PAYSTACK_SECRET_KEY, last)
     /\ request_json(last.body).event = "charge.success"
     /\ request_json(last.body).has_reference)
    => /\ Cardinality(RowsWithReference(payments,
                                        request_json(last.body).reference)) = 1
       /\ \A r \in RowsWithReference(payments,
                                     request_json(last.body).reference) :
             r.status = "success"

\* C3: a validly signed charge.success event whose reference is not yet in
\* the ledger leaves one record with that reference, the event's email and
\* status success, and check_active_subscription is then true for the email.
C3_FirstDeliveryInserts ==
    [][(/\ last'.op = "webhook"
        /\ ValidlySigned(PAYSTACK_SECRET_KEY, last')
        /\ request_json(last'.body).event = "charge.success"
        /\ request_json(last'.body).has_reference
        /\ ~HasReference(payments, request_json(last'.body).reference))
       => (/\ \E r \in payments' :
                 /\ r.reference = request_json(last'.body).reference
                 /\ r.email = request_json(last'.body).email
                 /\ r.status = "success"
           /\ Cardinality(RowsWithReference(payments',
                             request_json(last'.body).reference)) = 1
           /\ ActiveCount(payments', request_json(last'.body).email, now') > 0)
      ]_vars

\* C4: once the record of a reference has status success, a pending status
\* arriving later for that reference, by a webhook request or by
\* update_payment_status, leaves the status success.
C4_NoRegressionToPending ==
    [][\A r \in payments :
          (/\ r.status = "success"
           /\ \/ last'.op = "webhook"
              \/ \E f \in Faults :
                    update_payment_status(r.reference, "pending", f))
          => \E q \in payments' : q.id = r.id /\ q.status = "success"]_vars

\* C5: a webhook request whose signature header is missing or differs from
\* the HMAC-SHA512 of the raw body under the configured secret is answered
\* 400 "invalid signature" and the ledger is as it was.
C5_BadSignatureRejected ==
    [][(/\ last'.op = "webhook"
        /\ PAYSTACK_SECRET_KEY.set
        /\ ~ValidlySigned(PAYSTACK_SECRET_KEY, last'))
       => (/\ last'.http = 400
           /\ last'.json = "invalid signature"
           /\ payments' = payments)]_vars

\* A request signed under another secret was answered 400 while the ledger
\* holds a record.
C5_Witness ==
    /\ last.op = "webhook"
    /\ PAYSTACK_SECRET_KEY = [set |-> TRUE, value |-> "sk_live"]
    /\ last.signature = Header(hmac_sha512_hexdigest("sk_other", last.body))
    /\ last.http = 400
    /\ payments # {}

\* C6: with the secret not set or empty, every webhook request is rejected
\* as an authentication failure, whatever its signature.
C6_FailClosedWithoutSecret ==
    (/\ last.op = "webhook"
     /\ (~PAYSTACK_SECRET_KEY.set \/ PAYSTACK_SECRET_KEY.value = ""))
    => (last.http = 400 /\ last.json = "invalid signature")

\* The instant one retention window before a clock reading.
RetentionCutoff(clock) == ClockInstant(clock - RetentionDays)

\* C11: a cleanup_expired_payments run whose DELETE executes removes exactly
\* the records whose expires_at is earlier than now - 30 days, whatever
\* their status; no run removes a record whose expires_at is at or after
\* now - 30 days, expired as a subscription or not.
C11_CleanupRemovesExactlyOutOfWindow ==
    [][(last'.op = "cleanup_expired_payments")
       => /\ \A r \in payments :
                Instant(r.expires_at) >= RetentionCutoff(now)
                => r \in payments'
          /\ payments' \subseteq payments
          /\ last'.fault = "none"
             => \A r \in payments' :
                   Instant(r.expires_at) >= RetentionCutoff(now)]_vars

\* A cleanup run has removed a record and kept one that is no longer valid
\* as a subscription.
C11_Witness ==
    /\ last.op = "cleanup_expired_payments"
    /\ last.fault = "none"
    /\ sqlite_sequence > Cardinality(payments)
    /\ \E r \in payments : Instant(r.expires_at) <= ClockInstant(now)

\* The kind of failure the last ledger write met: "duplicate" (the INSERT
\* broke the UNIQUE constraint), "transient" (the storage failed),
\* "not_found" (the UPDATE matched no row), or "none".
FailureKind(call, table) ==
    CASE call.fault # "none" -> "transient"
      [] call.op = "store_payment" /\ call.ret # "True" -> "duplicate"
      [] /\ call.op = "update_payment_status"
         /\ ~HasReference(table, call.reference) -> "not_found"
      [] OTHER -> "none"

WriteOps == {"store_payment", "update_payment_status"}

\* C13: store_payment and update_payment_status report a duplicate
\* reference, a transient storage failure and not-found with different
\* result values: two calls of one operation that return the same value
\* did not fail in different ways.
C13_FailureKindsDistinct ==
    [][(/\ last.op \in WriteOps
        /\ last'.op = last.op
        /\ last'.ret = last.ret
        /\ FailureKind(last, payments) # "none"
        /\ FailureKind(last', payments') # "none")
       => FailureKind(last', payments') = FailureKind(last, payments)]_vars

\* Some record of the email is a success record that has not expired.
HasUnexpiredSuccess(table, email, clock) ==
    \E r \in table :
        /\ r.email = email
        /\ r.status = "success"
        /\ Instant(r.expires_at) > ClockInstant(clock)

\* C14: a subscription query that hits a storage failure hands back an
\* outcome other than "inactive" (False) and "no records" (None), and
\* check_active_subscription never reports inactive for an email that has
\* an unexpired success record.
C14_QueryFailureIsUnknown ==
    /\ (/\ last.op \in {"check_active_subscription", "get_payment_status"}
        /\ last.fault # "none")
       => last.ret \notin {"False", "None"}
    /\ (/\ last.op = "check_active_subscription"
        /\ HasUnexpiredSuccess(payments, last.email, now))
       => last.ret # "False"

\* C15: a validly signed webhook request whose event type is not
\* charge.success is acknowledged with 200 {"status": "success"} and the
\* ledger is as it was.
C15_OtherEventAcknowledged ==
    [][(/\ last'.op = "webhook"
        /\ ValidlySigned(PAYSTACK_SECRET_KEY, last')
        /\ request_json(last'.body).valid
        /\ request_json(last'.body).event # "charge.success")
       => (/\ last'.http = 200
           /\ last'.json = "success"
           /\ payments' = payments)]_vars

\* A transfer.success event signed under the receiver's key was answered
\* while the ledger holds a record.
C15_Witness ==
    /\ last.op = "webhook"
    /\ ValidlySigned(PAYSTACK_SECRET_KEY, last)
    /\ PAYSTACK_SECRET_KEY.value = "sk_live"
    /\ request_json(last.body).event = "transfer.success"
    /\ last.http = 200
    /\ payments # {}

\* C16: a validly signed webhook request whose body cannot be parsed, or
\* whose event is charge.success without data.reference, is answered 400
\* and the ledger is as it was.
C16_MalformedAnswered400 ==
    [][(/\ last'.op = "webhook"
        /\ ValidlySigned(PAYSTACK_SECRET_KEY, last')
        /\ \/ ~request_json(last'.body).valid
           \/ /\ request_json(last'.body).event = "charge.success"
              /\ ~request_json(last'.body).has_reference)
       => (last'.http = 400 /\ payments' = payments)]_vars

\* C17: update_payment_status changes nothing but the status of the record
\* with the given reference: that record keeps id, email, amount,
\* plan_type, created_at and expires_at, every other record is as it was,
\* and no record is created or removed.
C17_UpdateChangesOnlyStatus ==
    [][(last'.op = "update_payment_status")
       => /\ {r.id : r \in payments'} = {r.id : r \in payments}
          /\ Cardinality(payments') = Cardinality(payments)
          /\ \A r \in payments : \E q \in payments' :
                /\ q.id = r.id
                /\ [q EXCEPT !.status = r.status] = r
                /\ r.reference # last'.reference => q = r]_vars

\* An update_payment_status call ran on a reference the ledger holds,
\* beside a record of another reference.
C17_Witness ==
    /\ last.op = "update_payment_status"
    /\ last.fault = "none"
    /\ HasReference(payments, last.reference)
    /\ \E r \in payments :
          r.reference # last.reference /\ r.status = "success"
    /\ \E r \in payments :
          r.reference = last.reference /\ r.status = "failed"

\* C18: only cleanup_expired_payments removes records: after a call of any
\* other ledger method or a webhook request, every reference that was in
\* the ledger is still in it.
C18_OnlyCleanupRemoves ==
    [][(last'.op # "cleanup_expired_payments")
       => \A r \in payments : HasReference(payments', r.reference)]_vars

\* A charge.success event for a reference the ledger holds was accepted and
\* the record is still there.
C18_Witness ==
    /\ last.op = "webhook"
    /\ last.http = 200
    /\ request_json(last.body).has_reference
    /\ HasReference(payments, request_json(last.body).reference)

\* C20: a cleanup_expired_payments run leaves the answer of
\* check_active_subscription as it was, for every email.
C20_CleanupKeepsActive ==
    [][(last'.op = "cleanup_expired_payments")
       => \A e \in Emails :
             (ActiveCount(payments', e, now') > 0)
             <=> (ActiveCount(payments, e, now) > 0)]_vars

\* A cleanup run has removed a record while some email has an active
\* subscription.
C20_Witness ==
    /\ last.op = "cleanup_expired_payments"
    /\ last.fault = "none"
    /\ sqlite_sequence > Cardinality(payments)
    /\ \E e \in Emails : ActiveCount(payments, e, now) > 0

---------------------------------------------------------------------------
(* Overlapping calls *)

\* Both callers ran store_payment for this reference, neither met a storage
\* error, and each began while the reference was not yet in the ledger.
RacedStores(reference) ==
    \A c \in Callers :
       /\ inflight.calls[c].pc = "returned"
       /\ inflight.calls[c].op = "store_payment"
       /\ inflight.calls[c].reference = reference
       /\ inflight.calls[c].fault = "none"
       /\ inflight.calls[c].absent

\* C12: when two store_payment calls with the same reference, neither
\* meeting a storage error, overlap in any order of their steps, exactly
\* one record with that reference exists afterwards, exactly one call
\* returned True, and the other call ended in the IntegrityError handler
\* and returned False.
C12_ConcurrentStoresOneWinner ==
    \A ref \in References :
       RacedStores(ref)
       => /\ Cardinality(RowsWithReference(payments, ref)) = 1
          /\ \E w \in Callers :
                /\ inflight.calls[w].ret = "True"
                /\ \A l \in Callers \ {w} :
                      /\ inflight.calls[l].ret = "False"
                      /\ inflight.calls[l].handler = "IntegrityError"

C12_Witness ==
    /\ RacedStores("PAY1")
    /\ \E l \in Callers : inflight.calls[l].handler = "IntegrityError"

\* A cleanup run by this caller has returned after getting its connection.
CleanupDone(c) ==
    /\ inflight.calls[c].pc = "returned"
    /\ inflight.calls[c].op = "cleanup_expired_payments"
    /\ inflight.calls[c].fault # "connect"

\* C19: a cleanup that overlaps or follows another call returns without
\* raising; a step of any overlapping call removes only records whose
\* expiry is before the retention cutoff; and of two cleanup runs that
\* both committed at the same clock value, one deleted nothing.
C19_CleanupTwiceIsSafe ==
    [][/\ \A r \in payments :
             Instant(r.expires_at) >= RetentionCutoff(now)
             => \E q \in payments' : [q EXCEPT !.status = r.status] = r
       /\ \A c \in Callers :
             CleanupDone(c)' => inflight'.calls[c].ret = "None"
       /\ (/\ \A c \in Callers :
                 CleanupDone(c)' /\ inflight'.calls[c].fault = "none"
           /\ inflight'.calls[1].at = inflight'.calls[2].at)
          => \E c \in Callers : inflight'.calls[c].removed = 0]_vars

C19_Witness ==
    /\ \A c \in Callers : CleanupDone(c) /\ inflight.calls[c].fault = "none"
    /\ inflight.calls[1].at = inflight.calls[2].at
    /\ \E c \in Callers : inflight.calls[c].removed > 0

===========================================================================
